---------------------------- MODULE Spec2Model ----------------------------
(***************************************************************************)
(* Pakit: incremental decoder / encoder of a fixed-header framing          *)
(* protocol (src/src/pakit.c, src/include/pakit.h).                        *)
(*                                                                         *)
(* The receiver (PakitReceiver) is one record-valued variable; every       *)
(* library function is an operator computed the way the C code computes    *)
(* it, and every action is one call of a library function by a caller.     *)
(***************************************************************************)
EXTENDS Integers, Sequences, FiniteSets, TLC

(***************************************************************************)
(* Program constants (src/include/pakit.h).                                *)
(***************************************************************************)
PACKET_SOP_SIZE == 2
PACKET_TYPE_SIZE == 2
PACKET_COUNT_SIZE == 2
PACKET_SIZE_SIZE == 2
HEADER_SIZE == PACKET_SOP_SIZE + PACKET_TYPE_SIZE + PACKET_COUNT_SIZE + PACKET_SIZE_SIZE
MAX_PACKET_SIZE == 255 + HEADER_SIZE
EXPECTED_SOP_0 == 176
EXPECTED_SOP_1 == 178

\* sizeof(PacketBuffer.buffer): uint8_t buffer[HEADER_SIZE + MAX_PACKET_SIZE]
BUFFER_SIZE == HEADER_SIZE + MAX_PACKET_SIZE

\* The payload limit of the wire format (size field 0..255); the code has no
\* name for it: it is the literal inside MAX_PACKET_SIZE.
MaxPayloadSize == 255

\* PakitStatus
PAKIT_STATUS_SUCCESS == "SUCCESS"
PAKIT_STATUS_IN_PROGRESS == "IN_PROGRESS"
PAKIT_STATUS_ERROR_INVALID_SOP == "ERROR_INVALID_SOP"
PAKIT_STATUS_ERROR_SIZE_LARGE == "ERROR_SIZE_LARGE"
PAKIT_STATUS_ERROR_OVERFLOW == "ERROR_OVERFLOW"
PAKIT_STATUS_ERROR_NULL_PARAM == "ERROR_NULL_PARAM"
PakitStatus ==
    { PAKIT_STATUS_SUCCESS, PAKIT_STATUS_IN_PROGRESS, PAKIT_STATUS_ERROR_INVALID_SOP,
      PAKIT_STATUS_ERROR_SIZE_LARGE, PAKIT_STATUS_ERROR_OVERFLOW,
      PAKIT_STATUS_ERROR_NULL_PARAM }

\* ReceiverState.  pakit.c names the first state STATE_UNIQUE_ID (the header
\* spells it STATE_UNIQUE_SOP); it is the enumerator of value 0, the one
\* memset leaves in the state field.
STATE_UNIQUE_ID == "STATE_UNIQUE_ID"
STATE_PACKET_TYPE == "STATE_PACKET_TYPE"
STATE_COUNT == "STATE_COUNT"
STATE_SIZE == "STATE_SIZE"
STATE_PAYLOAD == "STATE_PAYLOAD"
STATE_COMPLETE == "STATE_COMPLETE"
ReceiverState ==
    { STATE_UNIQUE_ID, STATE_PACKET_TYPE, STATE_COUNT, STATE_SIZE, STATE_PAYLOAD,
      STATE_COMPLETE }

Byte == 0..255
\* A NULL pointer argument (objects are records without this field).
NULL == [null |-> TRUE]

(***************************************************************************)
(* The receiver and the overlay of the header on its buffer.               *)
(***************************************************************************)
\* uint16_t made of two bytes, most significant first: ((uint16_t)hi << 8) | lo
BigEndian16(hi, lo) == ((hi * 256) % 65536) + lo

\* PacketHeader fields as offsets into PacketBuffer.buffer (the union).
HeaderSop(r, i) == r.buffer[i]
HeaderType(r, i) == r.buffer[PACKET_SOP_SIZE + i]
HeaderCountBytes(r, i) == r.buffer[PACKET_SOP_SIZE + PACKET_TYPE_SIZE + i]
HeaderSizeBytes(r, i) ==
    r.buffer[PACKET_SOP_SIZE + PACKET_TYPE_SIZE + PACKET_COUNT_SIZE + i]
\* fields.payload[i]
FieldsPayload(r, i) == r.buffer[HEADER_SIZE + i]

\* pakit_init: memset to zero, then the four assignments.
pakit_init ==
    [ buffer |-> [i \in 0..(BUFFER_SIZE - 1) |-> 0],
      received_bytes |-> 0,
      header_complete |-> FALSE,
      state |-> STATE_UNIQUE_ID,
      expected_payload_size |-> 0 ]

\* pakit_create: pakit_init on a non-NULL receiver, nothing on NULL.
pakit_create(r) == IF r # NULL THEN pakit_init ELSE r


(***************************************************************************)
(* pakit_receive_byte                                                      *)
(***************************************************************************)
\* Mutant of BufferFull: off by one (> for >=).
BufferFullLate(r) == r.received_bytes > HEADER_SIZE + MAX_PACKET_SIZE

\* if (receiver->received_bytes >= HEADER_SIZE + MAX_PACKET_SIZE)
BufferFull(r) == r.received_bytes >= HEADER_SIZE + MAX_PACKET_SIZE

\* Mutant of StoreByte: the byte is stored, the counter is left as it was.
StoreByteNoCount(r, byte) == [r EXCEPT !.buffer[r.received_bytes] = byte]

\* receiver->packet.buffer[receiver->received_bytes++] = byte;
StoreByte(r, byte) ==
    [r EXCEPT !.buffer[r.received_bytes] = byte,
              !.received_bytes = r.received_bytes + 1]

\* sop[0] != EXPECTED_SOP_0 || sop[1] != EXPECTED_SOP_1
SopInvalid(r) ==
    \/ HeaderSop(r, 0) # EXPECTED_SOP_0
    \/ HeaderSop(r, 1) # EXPECTED_SOP_1

\* ((uint16_t)size_bytes[0] << 8) | size_bytes[1]
HeaderSize(r) == BigEndian16(HeaderSizeBytes(r, 0), HeaderSizeBytes(r, 1))

\* Mutant of HeaderCount: least significant byte first.
HeaderCountLittleEndian(r) ==
    BigEndian16(HeaderCountBytes(r, 1), HeaderCountBytes(r, 0))

\* ((uint16_t)count_bytes[0] << 8) | count_bytes[1]
HeaderCount(r) == BigEndian16(HeaderCountBytes(r, 0), HeaderCountBytes(r, 1))

\* Mutant of SizeTooLarge: off by one (>= 255 for > 255 + HEADER_SIZE).
SizeTooLargeAt255(size) == size >= 255

\* if (receiver->expected_payload_size > MAX_PACKET_SIZE)
SizeTooLarge(size) == size > MAX_PACKET_SIZE

\* Mutant of PayloadReceived: off by one (> for >=).
PayloadReceivedLate(r) == r.received_bytes > HEADER_SIZE + r.expected_payload_size

\* if (receiver->received_bytes >= HEADER_SIZE + receiver->expected_payload_size)
PayloadReceived(r) == r.received_bytes >= HEADER_SIZE + r.expected_payload_size

Result(r, st) == [receiver |-> r, status |-> st]

\* Mutant of StepUniqueId: the error is returned without pakit_init.
StepUniqueIdNoReset(r) ==
    IF r.received_bytes = PACKET_SOP_SIZE
    THEN IF SopInvalid(r)
         THEN Result(r, PAKIT_STATUS_ERROR_INVALID_SOP)
         ELSE Result([r EXCEPT !.state = STATE_PACKET_TYPE], PAKIT_STATUS_IN_PROGRESS)
    ELSE Result(r, PAKIT_STATUS_IN_PROGRESS)

\* Mutant of StepUniqueId: sliding resynchronization, the second byte of a
\* bad pair is kept as the first byte of the next one.
StepUniqueIdSliding(r) ==
    IF r.received_bytes = PACKET_SOP_SIZE
    THEN IF SopInvalid(r)
         THEN Result([pakit_init EXCEPT !.buffer[0] = HeaderSop(r, 1),
                                        !.received_bytes = 1],
                     PAKIT_STATUS_ERROR_INVALID_SOP)
         ELSE Result([r EXCEPT !.state = STATE_PACKET_TYPE], PAKIT_STATUS_IN_PROGRESS)
    ELSE Result(r, PAKIT_STATUS_IN_PROGRESS)

\* case STATE_UNIQUE_ID
StepUniqueId(r) ==
    IF r.received_bytes = PACKET_SOP_SIZE
    THEN IF SopInvalid(r)
         THEN Result(pakit_init, PAKIT_STATUS_ERROR_INVALID_SOP)
         ELSE Result([r EXCEPT !.state = STATE_PACKET_TYPE], PAKIT_STATUS_IN_PROGRESS)
    ELSE Result(r, PAKIT_STATUS_IN_PROGRESS)

\* Mutant of StepPacketType: the state advances one byte late.
StepPacketTypeLate(r) ==
    IF r.received_bytes = PACKET_SOP_SIZE + PACKET_TYPE_SIZE + 1
    THEN Result([r EXCEPT !.state = STATE_COUNT], PAKIT_STATUS_IN_PROGRESS)
    ELSE Result(r, PAKIT_STATUS_IN_PROGRESS)

\* Mutant of StepPacketType: a type byte 0x05 is refused like a bad marker.
StepPacketTypeValidates(r) ==
    IF HeaderType(r, 0) = 5
    THEN Result(pakit_init, PAKIT_STATUS_ERROR_INVALID_SOP)
    ELSE IF r.received_bytes = PACKET_SOP_SIZE + PACKET_TYPE_SIZE
    THEN Result([r EXCEPT !.state = STATE_COUNT], PAKIT_STATUS_IN_PROGRESS)
    ELSE Result(r, PAKIT_STATUS_IN_PROGRESS)

\* case STATE_PACKET_TYPE
StepPacketType(r) ==
    IF r.received_bytes = PACKET_SOP_SIZE + PACKET_TYPE_SIZE
    THEN Result([r EXCEPT !.state = STATE_COUNT], PAKIT_STATUS_IN_PROGRESS)
    ELSE Result(r, PAKIT_STATUS_IN_PROGRESS)

\* Mutant of StepCount: a count of 0xB0B0 is refused like a bad marker.
StepCountValidates(r) ==
    IF r.received_bytes = PACKET_SOP_SIZE + PACKET_TYPE_SIZE + PACKET_COUNT_SIZE
    THEN IF HeaderCountBytes(r, 0) = EXPECTED_SOP_0 /\ HeaderCountBytes(r, 1) = EXPECTED_SOP_0
         THEN Result(pakit_init, PAKIT_STATUS_ERROR_INVALID_SOP)
         ELSE Result([r EXCEPT !.state = STATE_SIZE], PAKIT_STATUS_IN_PROGRESS)
    ELSE Result(r, PAKIT_STATUS_IN_PROGRESS)

\* case STATE_COUNT
StepCount(r) ==
    IF r.received_bytes = PACKET_SOP_SIZE + PACKET_TYPE_SIZE + PACKET_COUNT_SIZE
    THEN Result([r EXCEPT !.state = STATE_SIZE], PAKIT_STATUS_IN_PROGRESS)
    ELSE Result(r, PAKIT_STATUS_IN_PROGRESS)

\* Mutant of StepSize: the error is returned without pakit_init.
StepSizeNoReset(r) ==
    IF r.received_bytes = HEADER_SIZE
    THEN LET sized == [r EXCEPT !.expected_payload_size = HeaderSize(r)]
             headed == [sized EXCEPT !.header_complete = TRUE,
                                     !.state = STATE_PAYLOAD]
         IN  IF SizeTooLarge(sized.expected_payload_size)
             THEN Result(sized, PAKIT_STATUS_ERROR_SIZE_LARGE)
             ELSE IF headed.expected_payload_size = 0
                  THEN Result([headed EXCEPT !.state = STATE_COMPLETE],
                              PAKIT_STATUS_SUCCESS)
                  ELSE Result(headed, PAKIT_STATUS_IN_PROGRESS)
    ELSE Result(r, PAKIT_STATUS_IN_PROGRESS)

\* Mutant of StepSize: no special case for a zero-length payload.
StepSizeNoZeroCase(r) ==
    IF r.received_bytes = HEADER_SIZE
    THEN LET sized == [r EXCEPT !.expected_payload_size = HeaderSize(r)]
             headed == [sized EXCEPT !.header_complete = TRUE,
                                     !.state = STATE_PAYLOAD]
         IN  IF SizeTooLarge(sized.expected_payload_size)
             THEN Result(pakit_init, PAKIT_STATUS_ERROR_SIZE_LARGE)
             ELSE Result(headed, PAKIT_STATUS_IN_PROGRESS)
    ELSE Result(r, PAKIT_STATUS_IN_PROGRESS)

\* case STATE_SIZE
StepSize(r) ==
    IF r.received_bytes = HEADER_SIZE
    THEN LET sized == [r EXCEPT !.expected_payload_size = HeaderSize(r)]
             headed == [sized EXCEPT !.header_complete = TRUE,
                                     !.state = STATE_PAYLOAD]
         IN  IF SizeTooLarge(sized.expected_payload_size)
             THEN Result(pakit_init, PAKIT_STATUS_ERROR_SIZE_LARGE)
             ELSE IF headed.expected_payload_size = 0
                  THEN Result([headed EXCEPT !.state = STATE_COMPLETE],
                              PAKIT_STATUS_SUCCESS)
                  ELSE Result(headed, PAKIT_STATUS_IN_PROGRESS)
    ELSE Result(r, PAKIT_STATUS_IN_PROGRESS)

\* case STATE_PAYLOAD
StepPayload(r) ==
    IF PayloadReceived(r)
    THEN Result([r EXCEPT !.state = STATE_COMPLETE], PAKIT_STATUS_SUCCESS)
    ELSE Result(r, PAKIT_STATUS_IN_PROGRESS)

RECURSIVE pakit_receive_byte(_, _)
\* Mutant of pakit_receive_byte: a byte given in STATE_COMPLETE resets the
\* receiver and is dropped.
ReceiveByteCompleteDrops(r, byte) ==
    IF r = NULL THEN Result(r, PAKIT_STATUS_ERROR_NULL_PARAM)
    ELSE IF BufferFull(r) THEN Result(r, PAKIT_STATUS_ERROR_OVERFLOW)
    ELSE LET s == StoreByte(r, byte)
         IN  CASE s.state = STATE_UNIQUE_ID -> StepUniqueId(s)
               [] s.state = STATE_PACKET_TYPE -> StepPacketType(s)
               [] s.state = STATE_COUNT -> StepCount(s)
               [] s.state = STATE_SIZE -> StepSize(s)
               [] s.state = STATE_PAYLOAD -> StepPayload(s)
               [] s.state = STATE_COMPLETE ->
                    Result(pakit_init, PAKIT_STATUS_IN_PROGRESS)

\* Mutant of pakit_receive_byte: the overflow guard resets the receiver.
ReceiveByteOverflowResets(r, byte) ==
    IF r = NULL THEN Result(r, PAKIT_STATUS_ERROR_NULL_PARAM)
    ELSE IF BufferFull(r) THEN Result(pakit_init, PAKIT_STATUS_ERROR_OVERFLOW)
    ELSE LET s == StoreByte(r, byte)
         IN  CASE s.state = STATE_UNIQUE_ID -> StepUniqueId(s)
               [] s.state = STATE_PACKET_TYPE -> StepPacketType(s)
               [] s.state = STATE_COUNT -> StepCount(s)
               [] s.state = STATE_SIZE -> StepSize(s)
               [] s.state = STATE_PAYLOAD -> StepPayload(s)
               [] s.state = STATE_COMPLETE -> pakit_receive_byte(pakit_init, byte)

pakit_receive_byte(r, byte) ==
    IF r = NULL THEN Result(r, PAKIT_STATUS_ERROR_NULL_PARAM)
    ELSE IF BufferFull(r) THEN Result(r, PAKIT_STATUS_ERROR_OVERFLOW)
    ELSE LET s == StoreByte(r, byte)
         IN  CASE s.state = STATE_UNIQUE_ID -> StepUniqueId(s)
               [] s.state = STATE_PACKET_TYPE -> StepPacketType(s)
               [] s.state = STATE_COUNT -> StepCount(s)
               [] s.state = STATE_SIZE -> StepSize(s)
               [] s.state = STATE_PAYLOAD -> StepPayload(s)
               \* the byte starts a new packet: reset, then process it again
               [] s.state = STATE_COMPLETE -> pakit_receive_byte(pakit_init, byte)

(***************************************************************************)
(* pakit_is_packet_complete                                                *)
(***************************************************************************)
\* The value of receiver->packet.fields.payload: a pointer into the
\* receiver's own buffer.
RX_PAYLOAD == [base |-> "receiver->packet.fields.payload"]

\* A caller's Packet the library has not written yet.
NoPacket == [written |-> FALSE]

\* if (receiver->received_bytes < HEADER_SIZE + size) return false;
PacketShort(r, size) == r.received_bytes < HEADER_SIZE + size

\* The record written through a non-NULL packet pointer.
ExtractedPacket(r, size) ==
    [ sop |-> <<HeaderSop(r, 0), HeaderSop(r, 1)>>,
      type |-> <<HeaderType(r, 0), HeaderType(r, 1)>>,
      count |-> HeaderCount(r),
      size |-> size,
      payload |-> RX_PAYLOAD ]

\* packet is the caller's record (NULL for a NULL pointer); the result is the
\* return value and the caller's record after the call.
pakit_is_packet_complete(r, packet) ==
    IF ~r.header_complete THEN [ret |-> FALSE, packet |-> packet]
    ELSE LET size == HeaderSize(r)
         IN  IF PacketShort(r, size) THEN [ret |-> FALSE, packet |-> packet]
             ELSE IF packet # NULL
                  THEN [ret |-> TRUE, packet |-> ExtractedPacket(r, size)]
                  ELSE [ret |-> TRUE, packet |-> packet]


(***************************************************************************)
(* pakit_receive_buffer                                                    *)
(***************************************************************************)
\* A pointer to a caller's object: NULL, or a record holding the object
\* (size_t position: [val |-> n]; const uint8_t* buffer: [data |-> bytes]).
PositionPtr(n) == [val |-> n]
BufferPtr(bytes) == [data |-> bytes]

\* Mutant of ReceiveLoop: the loop does not stop at a status other than
\* IN_PROGRESS.
RECURSIVE ReceiveLoopNoBreak(_, _, _, _, _)
ReceiveLoopNoBreak(r, bytes, buffer_length, current_pos, st) ==
    IF current_pos < buffer_length
    THEN LET res == pakit_receive_byte(r, bytes[current_pos + 1])
         IN  ReceiveLoopNoBreak(res.receiver, bytes, buffer_length,
                                current_pos + 1, res.status)
    ELSE [receiver |-> r, status |-> st, current_pos |-> current_pos]

\* Mutant of ReceiveLoop: current_pos is not advanced past the byte that
\* ends the loop.
RECURSIVE ReceiveLoopStuckOnStop(_, _, _, _, _)
ReceiveLoopStuckOnStop(r, bytes, buffer_length, current_pos, st) ==
    IF current_pos < buffer_length
    THEN LET res == pakit_receive_byte(r, bytes[current_pos + 1])
         IN  IF res.status # PAKIT_STATUS_IN_PROGRESS
             THEN [receiver |-> res.receiver, status |-> res.status,
                   current_pos |-> current_pos]
             ELSE ReceiveLoopStuckOnStop(res.receiver, bytes, buffer_length,
                                         current_pos + 1, res.status)
    ELSE [receiver |-> r, status |-> st, current_pos |-> current_pos]

\* while (current_pos < buffer_length) { status = pakit_receive_byte(...);
\* current_pos++; if (status != PAKIT_STATUS_IN_PROGRESS) break; }
\* bytes[current_pos + 1] is buffer[current_pos] (sequences count from 1).
RECURSIVE ReceiveLoop(_, _, _, _, _)
ReceiveLoop(r, bytes, buffer_length, current_pos, st) ==
    IF current_pos < buffer_length
    THEN LET res == pakit_receive_byte(r, bytes[current_pos + 1])
         IN  IF res.status # PAKIT_STATUS_IN_PROGRESS
             THEN [receiver |-> res.receiver, status |-> res.status,
                   current_pos |-> current_pos + 1]
             ELSE ReceiveLoop(res.receiver, bytes, buffer_length,
                              current_pos + 1, res.status)
    ELSE [receiver |-> r, status |-> st, current_pos |-> current_pos]

\* Mutant of pakit_receive_buffer: the loop starts at offset 0 whatever the
\* caller's position is.
ReceiveBufferFromStart(r, buffer, buffer_length, position) ==
    IF r = NULL \/ buffer = NULL
    THEN [receiver |-> r, status |-> PAKIT_STATUS_ERROR_NULL_PARAM,
          position |-> position]
    ELSE LET run == ReceiveLoop(r, buffer.data, buffer_length, 0,
                                PAKIT_STATUS_IN_PROGRESS)
         IN  [receiver |-> run.receiver, status |-> run.status,
              position |-> IF position # NULL THEN PositionPtr(run.current_pos)
                           ELSE position]

\* Mutant of pakit_receive_buffer: a NULL buffer resets the receiver and
\* the caller's position before ERROR_NULL_PARAM is returned.
ReceiveBufferNullResets(r, buffer, buffer_length, position) ==
    IF r = NULL
    THEN [receiver |-> r, status |-> PAKIT_STATUS_ERROR_NULL_PARAM,
          position |-> position]
    ELSE IF buffer = NULL
    THEN [receiver |-> pakit_init, status |-> PAKIT_STATUS_ERROR_NULL_PARAM,
          position |-> IF position # NULL THEN PositionPtr(0) ELSE position]
    ELSE LET current_pos == IF position # NULL THEN position.val ELSE 0
             run == ReceiveLoop(r, buffer.data, buffer_length, current_pos,
                                PAKIT_STATUS_IN_PROGRESS)
         IN  [receiver |-> run.receiver, status |-> run.status,
              position |-> IF position # NULL THEN PositionPtr(run.current_pos)
                           ELSE position]

\* The result is the receiver after the call, the status returned and the
\* caller's position after the call (NULL when no pointer was given).
pakit_receive_buffer(r, buffer, buffer_length, position) ==
    IF r = NULL \/ buffer = NULL
    THEN [receiver |-> r, status |-> PAKIT_STATUS_ERROR_NULL_PARAM,
          position |-> position]
    ELSE LET current_pos == IF position # NULL THEN position.val ELSE 0
             run == ReceiveLoop(r, buffer.data, buffer_length, current_pos,
                                PAKIT_STATUS_IN_PROGRESS)
         IN  [receiver |-> run.receiver, status |-> run.status,
              position |-> IF position # NULL THEN PositionPtr(run.current_pos)
                           ELSE position]

(***************************************************************************)
(* pakit_packet_create                                                     *)
(***************************************************************************)
\* Mutant of TypeBytesOf: least significant byte first.
TypeBytesSwapped(packet_type) == <<packet_type % 256, (packet_type \div 256) % 256>>

\* type[0] = (uint8_t)((packet_type >> 8) & 0xFF); type[1] = (uint8_t)(packet_type & 0xFF)
TypeBytesOf(packet_type) == <<(packet_type \div 256) % 256, packet_type % 256>>

\* Mutant of PayloadInconsistent: a payload with size 0 is let through.
PayloadInconsistentNullOnly(payload, payload_size) ==
    payload = NULL /\ payload_size > 0

\* (payload == NULL && payload_size > 0) || (payload != NULL && payload_size == 0)
PayloadInconsistent(payload, payload_size) ==
    \/ payload = NULL /\ payload_size > 0
    \/ payload # NULL /\ payload_size = 0

\* pkt is the caller's record (NULL for a NULL pointer), payload a pointer;
\* the result is the return value and the caller's record after the call.
pakit_packet_create(pkt, packet_type, count, payload, payload_size) ==
    IF pkt = NULL THEN [ret |-> FALSE, packet |-> pkt]
    ELSE IF PayloadInconsistent(payload, payload_size)
    THEN [ret |-> FALSE, packet |-> pkt]
    ELSE [ret |-> TRUE,
          packet |-> [ sop |-> <<EXPECTED_SOP_0, EXPECTED_SOP_1>>,
                       type |-> TypeBytesOf(packet_type),
                       count |-> count,
                       size |-> payload_size,
                       payload |-> payload ]]

(***************************************************************************)
(* The caller.  A caller owns one receiver, feeds it bytes and asks for    *)
(* the packet.  att and start are the caller's record of what it fed: the  *)
(* bytes of the current frame attempt (since the last pakit_init or the    *)
(* last status other than IN_PROGRESS) and how the attempt before it       *)
(* ended.  ret and packet are the locals of one pakit_is_packet_complete   *)
(* call; the caller drops them when it makes another call.                 *)
(***************************************************************************)
VARIABLES receiver, status, op, ret, packet, att, start,
          data, position, posArg, ref, refStatus, refPos, stage,
          args, created, prior, pc

\* data, position: the caller's byte array and its size_t position;
\* posArg: the last pakit_receive_buffer call was given &position;
\* ref, refStatus, refPos: a copy of the receiver as it was before that
\* call, fed the same bytes one pakit_receive_byte call at a time;
\* stage: how far the caller is in the two-frame sequence (see BufferStage);
\* args, created: the arguments and the record of a pakit_packet_create call;
\* prior: that record as it was before the call;
\* pc: where the caller is.
bytevars == <<att, start>>
bufvars == <<data, position, posArg, ref, refStatus, refPos, stage>>
rtvars == <<args, created, prior>>
vars == <<receiver, status, op, ret, packet, att, start,
          data, position, posArg, ref, refStatus, refPos, stage,
          args, created, prior, pc>>

\* status before the first pakit_receive_byte after a pakit_init
NONE == "NONE"

\* Payload contents the caller sends: pattern 0 is "Hello" repeated, pattern
\* k >= 1 is the byte (k*i + k - 1) & 0xFF at payload index i (k = 1 is the
\* ramp of test_large_payload).
MaxPattern == 1
Hello == <<72, 101, 108, 108, 111>>
Pattern(k, i) == IF k = 0 THEN Hello[(i % 5) + 1] ELSE (k * i + k - 1) % 256

\* Size fields (size_bytes[0], size_bytes[1]) the caller sends: 0, 1, 2, 5,
\* 255, 256, 263, 264 and 65535.
SizeFields ==
    { <<0, 0>>, <<0, 1>>, <<0, 2>>, <<0, 5>>, <<0, 255>>, <<1, 0>>, <<1, 7>>,
      <<1, 8>>, <<255, 255>> }
SopBytes == {160, 161, 162, EXPECTED_SOP_0, EXPECTED_SOP_1}
TypeBytes(i) == IF i = 0 THEN {1, 5} ELSE {3}
CountBytes(i) == IF i = 0 THEN {0, 1} ELSE {1}

\* The bytes the caller may feed as byte n (from 0) of an attempt whose
\* earlier bytes are a.
InputAt(n, a) ==
    IF n < 2 THEN SopBytes
    ELSE IF n < 4 THEN TypeBytes(n - 2)
    ELSE IF n < 6 THEN CountBytes(n - 4)
    ELSE IF n = 6 THEN {f[1] : f \in SizeFields}
    ELSE IF n = 7 THEN {f[2] : f \in {g \in SizeFields : g[1] = a[7]}}
    ELSE IF n = 8 THEN {Pattern(k, 0) : k \in 0..MaxPattern}
    ELSE {Pattern(k, n - 8) : k \in {j \in 0..MaxPattern : Pattern(j, 0) = a[9]}}

\* The attempt the next byte belongs to.
Ongoing == status = PAKIT_STATUS_IN_PROGRESS
CurrentAttempt == IF Ongoing THEN att ELSE <<>>

\* A caller's payload array: pattern k, as long as the caller needs it.
MemPtr(k) == [mem |-> k]
NoArgs == [none |-> TRUE]

\* The caller's variables a specification does not use.
BytesIdle == att = <<>> /\ start = "pakit_init"
BufferIdle ==
    /\ data = <<>> /\ position = 0 /\ posArg = FALSE
    /\ ref = pakit_init /\ refStatus = NONE /\ refPos = 0 /\ stage = 0
CreateIdle == args = NoArgs /\ created = NoPacket /\ prior = NoPacket

\* Mutant of InitCall: pakit_init without the memset, the buffer keeps its
\* bytes.
InitCallKeepsBuffer ==
    /\ receiver' = [pakit_init EXCEPT !.buffer = receiver.buffer]
    /\ status' = NONE
    /\ op' = "pakit_init"
    /\ ret' = FALSE
    /\ packet' = NoPacket

\* pakit_init(&receiver), with the caller's locals dropped
InitCall ==
    /\ receiver' = pakit_init
    /\ status' = NONE
    /\ op' = "pakit_init"
    /\ ret' = FALSE
    /\ packet' = NoPacket

\* Packet packet; ret = pakit_is_packet_complete(&receiver, &packet) or
\* ret = pakit_is_packet_complete(&receiver, NULL)
IsPacketCompleteCall ==
    \E p \in {NULL, NoPacket} :
        LET res == pakit_is_packet_complete(receiver, p)
        IN  /\ ret' = res.ret
            /\ packet' = IF p = NULL THEN NoPacket ELSE res.packet
            /\ op' = "pakit_is_packet_complete"
            /\ UNCHANGED <<receiver, status>>

(***************************************************************************)
(* Spec: a caller that feeds single bytes.                                 *)
(***************************************************************************)
Init ==
    /\ receiver = pakit_create(pakit_init)
    /\ status = NONE
    /\ op = "pakit_create"
    /\ ret = FALSE
    /\ packet = NoPacket
    /\ BytesIdle /\ BufferIdle /\ CreateIdle
    /\ pc = "bytes"

DoInit ==
    /\ InitCall
    /\ att' = <<>>
    /\ start' = "pakit_init"
    /\ UNCHANGED <<bufvars, rtvars, pc>>

\* status = pakit_receive_byte(&receiver, b)
DoReceiveByte ==
    \E b \in InputAt(Len(CurrentAttempt), CurrentAttempt) :
        LET res == pakit_receive_byte(receiver, b)
        IN  /\ receiver' = res.receiver
            /\ status' = res.status
            /\ op' = "pakit_receive_byte"
            /\ att' = Append(CurrentAttempt, b)
            /\ start' = IF Ongoing \/ status = NONE THEN start ELSE status
            /\ ret' = FALSE
            /\ packet' = NoPacket
            /\ UNCHANGED <<bufvars, rtvars, pc>>

DoIsPacketComplete ==
    /\ IsPacketCompleteCall
    /\ UNCHANGED <<bytevars, bufvars, rtvars, pc>>

Next ==
    \/ DoInit
    \/ DoReceiveByte
    \/ DoIsPacketComplete

Spec == Init /\ [][Next]_vars

(***************************************************************************)
(* SpecBuffer: a caller that hands a byte array to pakit_receive_buffer.   *)
(***************************************************************************)
\* The byte arrays of the tests and of the sample program.
FrameAB == <<176, 178, 1, 1, 0, 1, 0, 2, 65, 66>>
FrameCDE == <<176, 178, 2, 2, 0, 2, 0, 3, 67, 68, 69>>
FrameEmpty == <<176, 178, 2, 1, 0, 10, 0, 0>>
FrameHello == <<176, 178, 1, 3, 0, 1, 0, 5>> \o Hello
FrameBinary == <<176, 178, 2, 1, 0, 10, 0, 4, 222, 173, 190, 239>>
InvalidPacket == <<161, 162, 1, 2, 0, 1, 0, 2, 170, 187>>
OversizedPacket == <<176, 178, 1, 2, 0, 1, 255, 255, 170, 187>>
ShortPacket == <<176, 178, 2, 4, 0, 1, 0, 5, 65, 66, 67>>
Frames == {FrameAB, FrameCDE, FrameEmpty}
BufferData ==
    {f \o g : f \in Frames, g \in Frames}
        \cup {<<>>, FrameHello, FrameBinary, InvalidPacket, OversizedPacket,
              ShortPacket, InvalidPacket \o FrameAB, ShortPacket \o FrameAB,
              <<66>> \o FrameCDE}

\* The offsets the caller moves its position to: the start, inside the
\* marker and the header, the end of the header, the end of the array and
\* one past it.
SeekOffsets(bytes) == {0, 1, 5, HEADER_SIZE, Len(bytes), Len(bytes) + 1}

\* The single-byte run on ref has ended: bytes exhausted, or a status other
\* than IN_PROGRESS.
RefDone ==
    \/ refPos >= Len(data)
    \/ refStatus \notin {NONE, PAKIT_STATUS_IN_PROGRESS}

\* The caller acts when the reference run of its last call has ended.
CallerTurn == pc = "caller" \/ (pc = "ref" /\ RefDone)

\* stage follows the caller through: 1 receiver freshly initialized,
\* 2 then pakit_receive_buffer(&position) from position 0, 3 then
\* pakit_is_packet_complete, 4 then pakit_init, 5 then
\* pakit_receive_buffer(&position) from where the first call stopped, 6 then
\* pakit_is_packet_complete; 0 for any other sequence of calls.
StageAfterInit == IF stage = 3 THEN 4 ELSE 1
StageAfterBuffer(withPos) ==
    IF withPos /\ stage = 1 /\ position = 0 THEN 2
    ELSE IF withPos /\ stage = 4 THEN 5
    ELSE 0
StageAfterAsk == IF stage = 2 THEN 3 ELSE IF stage = 5 THEN 6 ELSE stage
StageAfterSeek == IF stage = 1 THEN 1 ELSE 0

InitBuffer ==
    /\ receiver = pakit_create(pakit_init)
    /\ status = NONE
    /\ op = "pakit_create"
    /\ ret = FALSE
    /\ packet = NoPacket
    /\ data \in BufferData
    /\ position = 0 /\ posArg = FALSE
    /\ ref = pakit_init /\ refStatus = NONE /\ refPos = 0
    /\ stage = 1
    /\ BytesIdle /\ CreateIdle
    /\ pc = "caller"

BufInit ==
    /\ CallerTurn
    /\ InitCall
    /\ stage' = StageAfterInit
    /\ pc' = "caller"
    /\ UNCHANGED <<data, position, posArg, ref, refStatus, refPos, bytevars, rtvars>>

\* position = p
BufSeek ==
    /\ CallerTurn
    /\ \E p \in SeekOffsets(data) : p # position /\ position' = p
    /\ stage' = StageAfterSeek
    /\ op' = "seek"
    /\ ret' = FALSE
    /\ packet' = NoPacket
    /\ pc' = "caller"
    /\ UNCHANGED <<receiver, status, data, posArg, ref, refStatus, refPos,
                   bytevars, rtvars>>

\* status = pakit_receive_buffer(&receiver, data, sizeof(data), &position)
\* or status = pakit_receive_buffer(&receiver, data, sizeof(data), NULL)
BufReceiveBuffer ==
    /\ CallerTurn
    /\ \E withPos \in BOOLEAN :
        LET ptr == IF withPos THEN PositionPtr(position) ELSE NULL
            res == pakit_receive_buffer(receiver, BufferPtr(data), Len(data), ptr)
        IN  /\ receiver' = res.receiver
            /\ status' = res.status
            /\ position' = IF withPos THEN res.position.val ELSE position
            /\ posArg' = withPos
            /\ ref' = receiver
            /\ refStatus' = NONE
            /\ refPos' = IF withPos THEN position ELSE 0
            /\ stage' = StageAfterBuffer(withPos)
    /\ op' = "pakit_receive_buffer"
    /\ ret' = FALSE
    /\ packet' = NoPacket
    /\ pc' = "ref"
    /\ UNCHANGED <<data, bytevars, rtvars>>

\* refStatus = pakit_receive_byte(&ref, data[refPos]); refPos++
BufRefStep ==
    /\ pc = "ref" /\ ~RefDone
    /\ LET res == pakit_receive_byte(ref, data[refPos + 1])
       IN  /\ ref' = res.receiver
           /\ refStatus' = res.status
    /\ refPos' = refPos + 1
    /\ UNCHANGED <<receiver, status, op, ret, packet, data, position, posArg,
                   stage, bytevars, rtvars, pc>>

BufIsPacketComplete ==
    /\ CallerTurn
    /\ IsPacketCompleteCall
    /\ stage' = StageAfterAsk
    /\ pc' = "caller"
    /\ UNCHANGED <<data, position, posArg, ref, refStatus, refPos, bytevars, rtvars>>

NextBuffer ==
    \/ BufInit
    \/ BufSeek
    \/ BufReceiveBuffer
    \/ BufRefStep
    \/ BufIsPacketComplete

SpecBuffer == InitBuffer /\ [][NextBuffer]_vars

\* payload[i] read through a payload pointer: a byte of the receiver's
\* buffer, or a byte of the caller's array.
Deref(payload, i) ==
    IF payload = RX_PAYLOAD THEN FieldsPayload(receiver, i) ELSE Pattern(payload.mem, i)

\* packet->payload[0 .. size-1] as the caller reads it through the pointer.
PayloadView(pkt) == [i \in 1..pkt.size |-> Deref(pkt.payload, i - 1)]

(***************************************************************************)
(* SpecRoundTrip: a caller that builds a packet with pakit_packet_create,  *)
(* writes it out in the wire format, feeds the bytes to a freshly          *)
(* initialized receiver and asks for the packet.                           *)
(***************************************************************************)
\* The wire format: marker, type, count and size most significant byte
\* first, then the payload bytes.
Serialize(pkt) ==
    << pkt.sop[1], pkt.sop[2], pkt.type[1], pkt.type[2],
       pkt.count \div 256, pkt.count % 256,
       pkt.size \div 256, pkt.size % 256 >> \o PayloadView(pkt)

\* Arguments the caller gives pakit_packet_create.
CreateTypes == {259, 1285}
CreateCounts == {1, 256}
CreateSizes == {0, 1, 5, 255, 256, 263, 264}
CreatePayloads == {NULL} \cup {MemPtr(k) : k \in 0..MaxPattern}
CreateArgs ==
    [ packet_type : CreateTypes, count : CreateCounts,
      payload : CreatePayloads, payload_size : CreateSizes ]

InitRoundTrip ==
    /\ receiver = pakit_create(pakit_init)
    /\ status = NONE
    /\ op = "pakit_create"
    /\ ret = FALSE
    /\ packet = NoPacket
    /\ args \in CreateArgs
    /\ created = NoPacket
    /\ prior = NoPacket
    /\ BytesIdle /\ BufferIdle
    /\ pc = "create"

\* Packet created; ret = pakit_packet_create(&created, type, count, payload, size)
RtCreate ==
    /\ pc = "create"
    /\ LET res == pakit_packet_create(created, args.packet_type, args.count,
                                      args.payload, args.payload_size)
       IN  /\ created' = res.packet
           /\ ret' = res.ret
           /\ pc' = IF res.ret THEN "serialize" ELSE "rejected"
    /\ prior' = created
    /\ op' = "pakit_packet_create"
    /\ UNCHANGED <<receiver, status, packet, args, bytevars, bufvars>>

\* uint8_t data[] = { the bytes of created, per the wire format }
RtSerialize ==
    /\ pc = "serialize"
    /\ data' = Serialize(created)
    /\ position' = 0
    /\ pc' = "feed"
    /\ op' = "serialize"
    /\ UNCHANGED <<receiver, status, ret, packet, posArg, ref, refStatus, refPos,
                   stage, bytevars, rtvars>>

\* status = pakit_receive_byte(&receiver, data[position]); position++
RtFeed ==
    /\ pc = "feed" /\ position < Len(data)
    /\ LET res == pakit_receive_byte(receiver, data[position + 1])
       IN  /\ receiver' = res.receiver
           /\ status' = res.status
    /\ position' = position + 1
    /\ op' = "pakit_receive_byte"
    /\ UNCHANGED <<ret, packet, data, posArg, ref, refStatus, refPos, stage,
                   bytevars, rtvars, pc>>

\* all bytes fed: Packet packet; ret = pakit_is_packet_complete(&receiver, &packet)
RtIsPacketComplete ==
    /\ pc = "feed" /\ position = Len(data)
    /\ LET res == pakit_is_packet_complete(receiver, NoPacket)
       IN  /\ ret' = res.ret
           /\ packet' = res.packet
    /\ op' = "pakit_is_packet_complete"
    /\ pc' = "done"
    /\ UNCHANGED <<receiver, status, bytevars, bufvars, rtvars>>

NextRoundTrip ==
    \/ RtCreate
    \/ RtSerialize
    \/ RtFeed
    \/ RtIsPacketComplete

SpecRoundTrip == InitRoundTrip /\ [][NextRoundTrip]_vars

(***************************************************************************)
(* What the claims speak of, in terms of the bytes the caller fed.         *)
(***************************************************************************)
\* The size field of an attempt of at least 8 bytes, read big-endian.
WireSize(a) == 256 * a[7] + a[8]
WireCount(a) == 256 * a[5] + a[6]

\* a is a prefix of a valid frame: marker 0xB0 0xB2, size field at most 255,
\* no byte beyond the payload.
ValidFramePrefix(a) ==
    /\ Len(a) >= 1 => a[1] = 176
    /\ Len(a) >= 2 => a[2] = 178
    /\ Len(a) >= 8 => WireSize(a) <= MaxPayloadSize /\ Len(a) <= 8 + WireSize(a)

\* a is a whole valid frame.
ValidFrame(a) == Len(a) >= 8 /\ ValidFramePrefix(a) /\ Len(a) = 8 + WireSize(a)

\* The last call was a pakit_receive_byte and att holds the bytes fed since
\* the attempt began.
Fed == status # NONE
FromInit == Fed /\ start = "pakit_init"

\* C1: a valid frame (size field 0..255) fed byte by byte to a freshly
\* initialized receiver: IN_PROGRESS on every byte but the last, SUCCESS on
\* the last.
C1_ValidFrameStatuses ==
    (FromInit /\ ValidFramePrefix(att)) =>
        status = IF ValidFrame(att) THEN PAKIT_STATUS_SUCCESS
                 ELSE PAKIT_STATUS_IN_PROGRESS

C1_Witness ==
    /\ FromInit /\ ValidFrame(att) /\ WireSize(att) = MaxPayloadSize
    /\ status = PAKIT_STATUS_SUCCESS

\* An input that starts with the marker and whose size field exceeds 255, as
\* far as a of its bytes show.
OversizePrefix(a) ==
    /\ Len(a) <= 8
    /\ Len(a) >= 1 => a[1] = 176
    /\ Len(a) >= 2 => a[2] = 178
    /\ Len(a) = 7 => a[7] >= 1
    /\ Len(a) = 8 => WireSize(a) > MaxPayloadSize

\* C2: with a valid marker and a size field above 255 (256..65535), the first
\* 7 bytes give IN_PROGRESS and the 8th gives ERROR_SIZE_LARGE and leaves
\* the receiver reset.
C2_OversizeRejected ==
    (FromInit /\ OversizePrefix(att)) =>
        IF Len(att) < 8 THEN status = PAKIT_STATUS_IN_PROGRESS
        ELSE /\ status = PAKIT_STATUS_ERROR_SIZE_LARGE
             /\ receiver.received_bytes = 0
             /\ receiver.state = STATE_UNIQUE_ID
             /\ ~receiver.header_complete

C4_SingleInvalidByteRejected ==
    (FromInit /\ Len(att) = 1 /\ att[1] \in {160, 162}) =>
        status = PAKIT_STATUS_ERROR_INVALID_SOP

\* The caller has just asked for the packet.
Asked == op = "pakit_is_packet_complete"
Given == Asked /\ packet # NoPacket

\* C5: after SUCCESS, pakit_is_packet_complete gives the marker 0xB0 0xB2,
\* the type bytes 2-3 of the stream, count = 256*byte4 + byte5, size =
\* 256*byte6 + byte7 and as payload the stream bytes 8 .. 8+size-1 in order.
C5_ExtractedFields ==
    (Asked /\ status = PAKIT_STATUS_SUCCESS) =>
        /\ ret
        /\ Given =>
            /\ packet.sop = <<176, 178>>
            /\ packet.type = <<att[3], att[4]>>
            /\ packet.count = WireCount(att)
            /\ packet.size = WireSize(att)
            /\ Len(att) = 8 + packet.size
            /\ PayloadView(packet) = SubSeq(att, 9, 8 + packet.size)

\* B0 B2 01 03 00 01 00 05 'Hello' gives type 0x0103, count 1, size 5, 'Hello'.
C5_Witness ==
    /\ Given /\ status = PAKIT_STATUS_SUCCESS
    /\ att = <<176, 178, 1, 3, 0, 1, 0, 5, 72, 101, 108, 108, 111>>
    /\ packet.type = <<1, 3>> /\ packet.count = 1 /\ packet.size = 5
    /\ PayloadView(packet) = Hello

\* What pakit_is_packet_complete would answer in the current state.
Available == pakit_is_packet_complete(receiver, NoPacket).ret

\* The part of C6 that speaks of the receiver's fields alone.
ExtractableIffCompleteState ==
    /\ Available <=>
            /\ receiver.header_complete
            /\ receiver.received_bytes >= 8 + 256 * receiver.buffer[6] + receiver.buffer[7]
    /\ Available <=> receiver.state = STATE_COMPLETE
    /\ receiver = pakit_init => ~Available
    /\ receiver.received_bytes < 8 => ~Available
    /\ (receiver.header_complete
          /\ receiver.received_bytes < 8 + receiver.expected_payload_size) => ~Available
    /\ (Asked /\ ~ret) => packet = NoPacket
    /\ Asked => ret = Available

\* C6: pakit_is_packet_complete reports a packet iff header_complete and
\* received_bytes >= 8 + declared size, which is exactly when the receiver
\* is in STATE_COMPLETE, that is when the most recent pakit_receive_byte
\* returned SUCCESS and no byte and no pakit_init followed; a fresh
\* receiver, a partial header and a short payload report no packet.
C6_ExtractableIffComplete ==
    /\ ExtractableIffCompleteState
    /\ receiver.state = STATE_COMPLETE <=> status = PAKIT_STATUS_SUCCESS

\* C10: a frame with size field 0 is answered SUCCESS on its 8th byte, the
\* receiver is then in STATE_COMPLETE and was in STATE_PAYLOAD after none of
\* the frame's bytes, and the packet has size 0 and a non-NULL payload.
C10_ZeroPayload ==
    (Fed /\ Len(att) <= 8 /\ ValidFramePrefix(att)
         /\ (Len(att) = 8 => WireSize(att) = 0)) =>
        /\ receiver.state # STATE_PAYLOAD
        /\ Len(att) = 8 =>
            /\ status = PAKIT_STATUS_SUCCESS
            /\ receiver.state = STATE_COMPLETE
            /\ Asked => ret
            /\ Given => packet.size = 0 /\ packet.payload # NULL

C10_Witness ==
    /\ Given /\ ret /\ Len(att) = 8 /\ ValidFrame(att) /\ WireSize(att) = 0
    /\ status = PAKIT_STATUS_SUCCESS /\ packet.size = 0 /\ packet.payload = RX_PAYLOAD

\* C8: pakit_receive_buffer leaves the receiver, the status and the position
\* that feeding the same bytes with pakit_receive_byte, one call at a time
\* from the start offset (0 for a NULL position) until the bytes end or a
\* status differs from IN_PROGRESS, leaves; with no byte to feed the status
\* is IN_PROGRESS.
C8_BufferEqualsByteRun ==
    (pc = "ref" /\ RefDone) =>
        /\ receiver = ref
        /\ status = IF refStatus = NONE THEN PAKIT_STATUS_IN_PROGRESS ELSE refStatus
        /\ posArg => position = refPos

\* A call from inside the array that stops at SUCCESS before the array ends.
C8_Witness ==
    /\ pc = "ref" /\ RefDone /\ posArg
    /\ status = PAKIT_STATUS_SUCCESS
    /\ HEADER_SIZE < position /\ position < Len(data)
    /\ ref # pakit_init

\* bytes is two valid frames, one after the other.
FirstLen(bytes) == 8 + WireSize(bytes)
TwoFrames(bytes) ==
    /\ Len(bytes) >= 16
    /\ FirstLen(bytes) + 8 <= Len(bytes)
    /\ ValidFrame(SubSeq(bytes, 1, FirstLen(bytes)))
    /\ ValidFrame(SubSeq(bytes, FirstLen(bytes) + 1, Len(bytes)))
SecondFrame(bytes) == SubSeq(bytes, FirstLen(bytes) + 1, Len(bytes))

\* C9: on an array of two valid frames F1 F2 and a fresh receiver, the first
\* pakit_receive_buffer from offset 0 returns SUCCESS with position =
\* length(F1); after pakit_is_packet_complete and pakit_init the second call
\* from that position returns SUCCESS with position = length(F1) +
\* length(F2), and pakit_is_packet_complete then gives the fields of F2.
C9_TwoFramesInBuffer ==
    TwoFrames(data) =>
        /\ stage = 2 =>
            status = PAKIT_STATUS_SUCCESS /\ position = FirstLen(data)
        /\ stage = 5 =>
            status = PAKIT_STATUS_SUCCESS /\ position = Len(data)
        /\ stage = 6 =>
            /\ ret
            /\ Given =>
                /\ packet.sop = <<176, 178>>
                /\ packet.type = <<SecondFrame(data)[3], SecondFrame(data)[4]>>
                /\ packet.count = WireCount(SecondFrame(data))
                /\ packet.size = WireSize(SecondFrame(data))
                /\ PayloadView(packet) =
                       SubSeq(SecondFrame(data), 9, Len(SecondFrame(data)))

\* The two frames of test_multiple_packets, the second one extracted.
C9_Witness ==
    /\ data = FrameAB \o FrameCDE /\ stage = 6 /\ Given
    /\ position = 21 /\ packet.type = <<2, 2>> /\ packet.count = 2
    /\ packet.size = 3 /\ PayloadView(packet) = <<67, 68, 69>>

\* What the round trip is to give back: the type bytes, count, size and
\* payload content of the packet pakit_packet_create built.
RoundTripSame ==
    /\ ret
    /\ packet.type = created.type
    /\ packet.count = created.count
    /\ packet.size = created.size
    /\ PayloadView(packet) = PayloadView(created)

\* C7 as stated: every packet pakit_packet_create accepts, whatever its size,
\* comes back from the wire with the same type bytes, count, size and payload.
C7_RoundTripAnySize == pc = "done" => RoundTripSame

\* C7 amended: the packets pakit_packet_create accepts with size <= 255 come
\* back from the wire with the same type bytes, count, size and payload.
C7_RoundTripWithinLimit ==
    (pc = "done" /\ created.size <= MaxPayloadSize) => RoundTripSame

C7_Witness ==
    /\ pc = "done" /\ created.size = MaxPayloadSize /\ RoundTripSame
    /\ created.type = <<1, 3>> /\ created.count = 256
    /\ packet.payload = RX_PAYLOAD /\ created.payload = MemPtr(1)

(***************************************************************************)
(* Steps of the byte-feeding caller, for the claims about single calls.    *)
(***************************************************************************)
\* The step is a pakit_receive_byte call; FedByte is the byte it was given.
FeedStep == op' = "pakit_receive_byte"
FedByte == att'[Len(att')]
AskStep == op' = "pakit_is_packet_complete"
InitStep == op' = "pakit_init"

\* The receiver pakit_init followed by pakit_receive_byte(b) leaves: one
\* byte received, b at offset 0, waiting for the marker.
InitThenByte(b) ==
    [pakit_init EXCEPT !.buffer[0] = b, !.received_bytes = 1]

\* C11: a byte fed to a receiver in STATE_COMPLETE, with no pakit_init, has
\* the result of pakit_init followed by the same byte: the status is
\* IN_PROGRESS and the receiver has received_bytes 1, the byte at offset 0,
\* state STATE_UNIQUE_ID and header_complete false; no other status is
\* returned for a byte delivered in STATE_COMPLETE.
C11_CompleteByteRestarts ==
    [][(receiver.state = STATE_COMPLETE /\ FeedStep) =>
            /\ status' = PAKIT_STATUS_IN_PROGRESS
            /\ status' = pakit_receive_byte(pakit_init, FedByte).status
            /\ receiver' = pakit_receive_byte(pakit_init, FedByte).receiver
            /\ receiver' = InitThenByte(FedByte)]_vars

\* The part of C12 about pakit_is_packet_complete itself: it changes no
\* field of the receiver, consecutive calls give the same answer and the
\* same packet, and a packet stops being available only in a
\* pakit_receive_byte or a pakit_init step.
ExtractReadOnlyStep ==
    /\ AskStep => receiver' = receiver
    /\ (Asked /\ AskStep) =>
            /\ ret' = ret
            /\ (Given /\ packet' # NoPacket) =>
                    /\ packet' = packet
                    /\ PayloadView(packet') = PayloadView(packet)
    /\ (Available /\ ~Available') => (FeedStep \/ InitStep)

\* C12: pakit_is_packet_complete is read-only, so consecutive calls on a
\* complete receiver return the same packet; a completed frame stops being
\* available only after a pakit_receive_byte or a pakit_init; and after any
\* pakit_receive_byte on a receiver in STATE_COMPLETE no packet is available.
C12_ExtractReadOnly ==
    [][/\ ExtractReadOnlyStep
       /\ (receiver.state = STATE_COMPLETE /\ FeedStep) => ~Available']_vars

\* C13: a pakit_receive_byte that returns ERROR_INVALID_SOP or
\* ERROR_SIZE_LARGE leaves the receiver exactly as pakit_init leaves it
\* (received_bytes 0, STATE_UNIQUE_ID, header_complete false,
\* expected_payload_size 0, buffer zeroed), so the bytes that follow are
\* answered as a fresh receiver answers them; a call that returns any other
\* error status changes no field of the receiver.
C13_ErrorResets ==
    [][FeedStep =>
            /\ status' \in {PAKIT_STATUS_ERROR_INVALID_SOP,
                            PAKIT_STATUS_ERROR_SIZE_LARGE} =>
                    /\ receiver' = pakit_init
                    /\ receiver'.received_bytes = 0
                    /\ receiver'.state = STATE_UNIQUE_ID
                    /\ ~receiver'.header_complete
                    /\ receiver'.expected_payload_size = 0
                    /\ \A i \in 0..(BUFFER_SIZE - 1) : receiver'.buffer[i] = 0
            /\ status' \in {PAKIT_STATUS_ERROR_OVERFLOW,
                            PAKIT_STATUS_ERROR_NULL_PARAM} =>
                    receiver' = receiver]_vars

\* A size error right after a marker error, the receiver reset by both.
C13_Witness ==
    /\ Fed /\ status = PAKIT_STATUS_ERROR_SIZE_LARGE
    /\ start = PAKIT_STATUS_ERROR_INVALID_SOP
    /\ Len(att) = 8 /\ WireSize(att) = 65535
    /\ receiver = pakit_init

\* C14: whatever calls are made on an initialized receiver and whatever the
\* bytes, no pakit_receive_byte returns ERROR_OVERFLOW.
C14_NoOverflow == status # PAKIT_STATUS_ERROR_OVERFLOW

\* C15: a pakit_receive_byte that returns ERROR_OVERFLOW stores nothing and
\* changes no field of the receiver; every pakit_receive_byte after it
\* returns ERROR_OVERFLOW too until the caller calls pakit_init, and after
\* pakit_init the receiver takes bytes again (IN_PROGRESS, one byte stored).
C15_OverflowSticky ==
    [][/\ (FeedStep /\ status' = PAKIT_STATUS_ERROR_OVERFLOW) =>
                receiver' = receiver
       /\ (FeedStep /\ status = PAKIT_STATUS_ERROR_OVERFLOW) =>
                status' = PAKIT_STATUS_ERROR_OVERFLOW
       /\ (InitStep /\ status = PAKIT_STATUS_ERROR_OVERFLOW) =>
                receiver' = pakit_init
       /\ (FeedStep /\ op = "pakit_init") =>
                /\ status' = PAKIT_STATUS_IN_PROGRESS
                /\ receiver' = InitThenByte(FedByte)]_vars

\* A second ERROR_OVERFLOW in a row, the buffer still full.
C15_Witness ==
    /\ Fed /\ status = PAKIT_STATUS_ERROR_OVERFLOW
    /\ start = PAKIT_STATUS_ERROR_OVERFLOW
    /\ receiver.received_bytes = BUFFER_SIZE
    /\ receiver.state = STATE_COMPLETE

\* C19: in every reachable state expected_payload_size is at most 255 and
\* received_bytes is at most 263 (8 + 255).
C19_SizeAndCounterBounds ==
    /\ receiver.expected_payload_size <= MaxPayloadSize
    /\ receiver.received_bytes <= HEADER_SIZE + MaxPayloadSize

\* How a pakit_receive_byte step leaves received_bytes: 0 after the reset
\* that comes with ERROR_INVALID_SOP or ERROR_SIZE_LARGE, unchanged when the
\* byte is refused, 1 when the byte restarts a complete receiver, and one
\* more than before for every other byte.
CounterAfterFeed ==
    IF status' \in {PAKIT_STATUS_ERROR_INVALID_SOP, PAKIT_STATUS_ERROR_SIZE_LARGE}
    THEN 0
    ELSE IF status' \in {PAKIT_STATUS_ERROR_OVERFLOW, PAKIT_STATUS_ERROR_NULL_PARAM}
    THEN receiver.received_bytes
    ELSE IF receiver.state = STATE_COMPLETE THEN 1
    ELSE receiver.received_bytes + 1

\* C20: between two (re)initializations received_bytes never decreases and
\* grows by exactly 1 with each byte taken; it goes back only in a step that
\* (re)initializes (pakit_init, the reset of an error, the restart after a
\* complete frame); and received_bytes = 0 implies STATE_UNIQUE_ID,
\* header_complete false and expected_payload_size 0.
C20_CounterMonotone ==
    [][/\ FeedStep => receiver'.received_bytes = CounterAfterFeed
       /\ AskStep => receiver'.received_bytes = receiver.received_bytes
       /\ InitStep => receiver'.received_bytes = 0
       /\ receiver'.received_bytes < receiver.received_bytes =>
            \/ InitStep
            \/ FeedStep /\ status' \in {PAKIT_STATUS_ERROR_INVALID_SOP,
                                        PAKIT_STATUS_ERROR_SIZE_LARGE}
            \/ FeedStep /\ receiver.state = STATE_COMPLETE
       /\ receiver'.received_bytes = 0 =>
            /\ receiver'.state = STATE_UNIQUE_ID
            /\ ~receiver'.header_complete
            /\ receiver'.expected_payload_size = 0]_vars

\* The last payload byte of a 255-byte frame has just been counted.
C20_Witness ==
    /\ Fed /\ ValidFrame(att) /\ WireSize(att) = MaxPayloadSize
    /\ receiver.received_bytes = Len(att)
    /\ receiver.received_bytes = HEADER_SIZE + MaxPayloadSize

(***************************************************************************)
(* SpecNull: a caller that walks a byte array with pakit_receive_byte and, *)
(* at any point, makes a call with a NULL receiver or a NULL buffer.  ref  *)
(* and refPos hold the caller's receiver and position as they were before  *)
(* that call.                                                              *)
(***************************************************************************)
NullData == {FrameAB, FrameCDE, FrameEmpty, ShortPacket, InvalidPacket, OversizedPacket}

\* The name of a call with NULL arguments, as op records it.
NullByteOp == "pakit_receive_byte(NULL, b)"
NullBufferOp(rcv, buf) ==
    IF rcv = NULL
    THEN IF buf = NULL THEN "pakit_receive_buffer(NULL, NULL)"
         ELSE "pakit_receive_buffer(NULL, data)"
    ELSE "pakit_receive_buffer(&receiver, NULL)"
NullOps ==
    { NullByteOp, "pakit_receive_buffer(NULL, NULL)",
      "pakit_receive_buffer(NULL, data)", "pakit_receive_buffer(&receiver, NULL)" }

InitNull ==
    /\ receiver = pakit_create(pakit_init)
    /\ status = NONE
    /\ op = "pakit_create"
    /\ ret = FALSE
    /\ packet = NoPacket
    /\ data \in NullData
    /\ position = 0 /\ posArg = FALSE
    /\ ref = pakit_init /\ refStatus = NONE /\ refPos = 0
    /\ stage = 0
    /\ BytesIdle /\ CreateIdle
    /\ pc = "null"

\* pakit_init(&receiver); position = 0
NullInit ==
    /\ pc = "null"
    /\ InitCall
    /\ position' = 0
    /\ UNCHANGED <<data, posArg, ref, refStatus, refPos, stage, bytevars, rtvars, pc>>

\* status = pakit_receive_byte(&receiver, data[position]); position++
NullFeed ==
    /\ pc = "null" /\ position < Len(data)
    /\ LET res == pakit_receive_byte(receiver, data[position + 1])
       IN  /\ receiver' = res.receiver
           /\ status' = res.status
    /\ position' = position + 1
    /\ op' = "pakit_receive_byte"
    /\ UNCHANGED <<ret, packet, data, posArg, ref, refStatus, refPos, stage,
                   bytevars, rtvars, pc>>

\* status = pakit_receive_byte(NULL, b): the call is given no receiver, the
\* caller's own receiver is not an argument of it.
NullReceiveByte ==
    /\ pc = "null"
    /\ \E b \in SopBytes :
        LET res == pakit_receive_byte(NULL, b)
        IN  /\ status' = res.status
            /\ receiver' = IF res.receiver = NULL THEN receiver ELSE res.receiver
    /\ ref' = receiver
    /\ refPos' = position
    /\ op' = NullByteOp
    /\ UNCHANGED <<ret, packet, data, position, posArg, refStatus, stage,
                   bytevars, rtvars, pc>>

\* status = pakit_receive_buffer(rcv, buf, sizeof(data), pos) with rcv NULL
\* or buf NULL; pos is &position or NULL.
NullReceiveBuffer ==
    /\ pc = "null"
    /\ \E rcv \in {NULL, receiver}, buf \in {NULL, BufferPtr(data)}, withPos \in BOOLEAN :
        /\ rcv = NULL \/ buf = NULL
        /\ LET ptr == IF withPos THEN PositionPtr(position) ELSE NULL
               res == pakit_receive_buffer(rcv, buf, Len(data), ptr)
           IN  /\ status' = res.status
               /\ receiver' = IF rcv = NULL THEN receiver ELSE res.receiver
               /\ position' = IF withPos THEN res.position.val ELSE position
        /\ posArg' = withPos
        /\ op' = NullBufferOp(rcv, buf)
    /\ ref' = receiver
    /\ refPos' = position
    /\ UNCHANGED <<ret, packet, data, refStatus, stage, bytevars, rtvars, pc>>

NextNull ==
    \/ NullInit
    \/ NullFeed
    \/ NullReceiveByte
    \/ NullReceiveBuffer

SpecNull == InitNull /\ [][NextNull]_vars

\* C16: pakit_receive_byte with a NULL receiver, and pakit_receive_buffer
\* with a NULL receiver or a NULL buffer, return ERROR_NULL_PARAM, take no
\* byte, leave the receiver as it was and leave the caller's position as it
\* was.
C16_NullParam ==
    op \in NullOps =>
        /\ status = PAKIT_STATUS_ERROR_NULL_PARAM
        /\ receiver = ref
        /\ position = refPos

\* A NULL buffer handed over with the caller's receiver in the middle of a
\* payload and &position.
C16_Witness ==
    /\ op = "pakit_receive_buffer(&receiver, NULL)" /\ posArg
    /\ status = PAKIT_STATUS_ERROR_NULL_PARAM
    /\ receiver.state = STATE_PAYLOAD /\ receiver.received_bytes = 9
    /\ position = 9 /\ receiver = ref

(***************************************************************************)
(* SpecCreate: a caller that calls pakit_packet_create again and again,    *)
(* into its record created or with a NULL packet pointer, while it also    *)
(* feeds a receiver the bytes of a frame.                                  *)
(***************************************************************************)
\* The packet argument: NULL or &created.
BuildOuts == {"NULL", "&created"}
BuildArgs ==
    [ out : BuildOuts, packet_type : CreateTypes, count : CreateCounts,
      payload : {NULL, MemPtr(0)}, payload_size : {0, 5, 65535} ]

InitCreate ==
    /\ receiver = pakit_create(pakit_init)
    /\ status = NONE
    /\ op = "pakit_create"
    /\ ret = FALSE
    /\ packet = NoPacket
    /\ data = FrameEmpty
    /\ position = 0 /\ posArg = FALSE
    /\ ref = pakit_init /\ refStatus = NONE /\ refPos = 0
    /\ stage = 0
    /\ BytesIdle /\ CreateIdle
    /\ pc = "build"

\* status = pakit_receive_byte(&receiver, data[position]); position++
BuildFeed ==
    /\ pc = "build" /\ position < Len(data)
    /\ LET res == pakit_receive_byte(receiver, data[position + 1])
       IN  /\ receiver' = res.receiver
           /\ status' = res.status
    /\ position' = position + 1
    /\ op' = "pakit_receive_byte"
    /\ UNCHANGED <<ret, packet, data, posArg, ref, refStatus, refPos, stage,
                   bytevars, rtvars, pc>>

\* ret = pakit_packet_create(&created or NULL, type, count, payload, size)
BuildCall ==
    /\ pc = "build"
    /\ \E a \in BuildArgs :
        LET pkt == IF a.out = "NULL" THEN NULL ELSE created
            res == pakit_packet_create(pkt, a.packet_type, a.count, a.payload,
                                       a.payload_size)
        IN  /\ args' = a
            /\ ret' = res.ret
            /\ created' = IF pkt = NULL THEN created ELSE res.packet
    /\ prior' = created
    /\ op' = "pakit_packet_create"
    /\ UNCHANGED <<receiver, status, packet, bytevars, bufvars, pc>>

NextCreate ==
    \/ BuildFeed
    \/ BuildCall

SpecCreate == InitCreate /\ [][NextCreate]_vars

\* The caller has just called pakit_packet_create.
Built == pc = "build" /\ op = "pakit_packet_create"

\* C17: pakit_packet_create returns false and leaves the caller's record as
\* it was exactly when the packet pointer is NULL, or the payload is NULL
\* with size > 0, or the payload is not NULL with size 0; for every other
\* input it returns true.
C17_CreateFailsExactly ==
    Built =>
        LET bad == \/ args.out = "NULL"
                   \/ args.payload = NULL /\ args.payload_size > 0
                   \/ args.payload # NULL /\ args.payload_size = 0
        IN  /\ ret = ~bad
            /\ ~ret => created = prior

\* A record written by an earlier call, left as it was by a call with a
\* payload and size 0.
C17_Witness ==
    /\ Built /\ ~ret /\ args.out = "&created"
    /\ args.payload = MemPtr(0) /\ args.payload_size = 0
    /\ created # NoPacket /\ created = prior

\* C18: on success the record has the marker (0xB0, 0xB2), type[0] the high
\* and type[1] the low byte of the 16-bit type, count and size as given and
\* the payload pointer the caller gave (no copy), whatever state a receiver
\* is in.
C18_CreatedFields ==
    (Built /\ ret) =>
        /\ created.sop = <<176, 178>>
        /\ created.type = <<args.packet_type \div 256, args.packet_type % 256>>
        /\ created.count = args.count
        /\ created.size = args.payload_size
        /\ created.payload = args.payload

\* Type 0x0103 built over an earlier record while a receiver holds a
\* complete frame.
C18_Witness ==
    /\ Built /\ ret /\ args.packet_type = 259 /\ args.count = 256
    /\ created.type = <<1, 3>> /\ created.count = 256 /\ created.size = 65535
    /\ created.payload = MemPtr(0)
    /\ prior # NoPacket /\ prior # created
    /\ receiver.state = STATE_COMPLETE

\* C21: pakit_init (and pakit_create on a non-NULL receiver) applied to the
\* receiver in any reachable state gives the one initial state
\* (received_bytes 0, STATE_UNIQUE_ID, header_complete false,
\* expected_payload_size 0, buffer zeroed); a second pakit_init changes
\* nothing, pakit_is_packet_complete reports no packet right after it, and a
\* valid frame fed after it is answered IN_PROGRESS on all bytes but the
\* last and SUCCESS on the last.
C21_InitFromAnyState ==
    [][/\ pakit_create(receiver) = pakit_init
       /\ InitStep =>
            /\ receiver' = pakit_init
            /\ receiver'.received_bytes = 0
            /\ receiver'.state = STATE_UNIQUE_ID
            /\ ~receiver'.header_complete
            /\ receiver'.expected_payload_size = 0
            /\ \A i \in 0..(BUFFER_SIZE - 1) : receiver'.buffer[i] = 0
            /\ ~Available'
       /\ (op = "pakit_init" /\ InitStep) => receiver' = receiver
       /\ (op = "pakit_init" /\ AskStep) => ~ret' /\ packet' = NoPacket
       /\ (FeedStep /\ start' = "pakit_init" /\ ValidFramePrefix(att')) =>
            status' = IF ValidFrame(att') THEN PAKIT_STATUS_SUCCESS
                      ELSE PAKIT_STATUS_IN_PROGRESS]_vars

\* The caller has just called pakit_init: the receiver is the initial one
\* and holds no packet.
C21_Witness ==
    /\ op = "pakit_init" /\ status = NONE /\ att = <<>>
    /\ receiver = pakit_init /\ pakit_create(receiver) = pakit_init
    /\ ~Available

\* The value of the size field in the buffer, most significant byte first.
BufferSizeField == 256 * receiver.buffer[6] + receiver.buffer[7]

\* C22: state and received_bytes are coupled in every reachable state:
\* STATE_UNIQUE_ID iff received_bytes in {0,1}, STATE_PACKET_TYPE iff {2,3},
\* STATE_COUNT iff {4,5}, STATE_SIZE iff {6,7}; STATE_PAYLOAD implies
\* header_complete, expected_payload_size >= 1 and 8 <= received_bytes <
\* 8 + expected_payload_size; STATE_COMPLETE implies header_complete and
\* received_bytes = 8 + expected_payload_size; header_complete iff the state
\* is STATE_PAYLOAD or STATE_COMPLETE, and expected_payload_size is then the
\* big-endian value of buffer bytes 6-7.
C22_StateCounterCoupling ==
    /\ receiver.state = STATE_UNIQUE_ID <=> receiver.received_bytes \in {0, 1}
    /\ receiver.state = STATE_PACKET_TYPE <=> receiver.received_bytes \in {2, 3}
    /\ receiver.state = STATE_COUNT <=> receiver.received_bytes \in {4, 5}
    /\ receiver.state = STATE_SIZE <=> receiver.received_bytes \in {6, 7}
    /\ receiver.state = STATE_PAYLOAD =>
            /\ receiver.header_complete
            /\ receiver.expected_payload_size >= 1
            /\ 8 <= receiver.received_bytes
            /\ receiver.received_bytes < 8 + receiver.expected_payload_size
    /\ receiver.state = STATE_COMPLETE =>
            /\ receiver.header_complete
            /\ receiver.received_bytes = 8 + receiver.expected_payload_size
    /\ receiver.header_complete <=>
            receiver.state \in {STATE_PAYLOAD, STATE_COMPLETE}
    /\ receiver.header_complete =>
            receiver.expected_payload_size = BufferSizeField

\* In the middle of the payload of a 5-byte frame.
C22_Witness ==
    /\ receiver.state = STATE_PAYLOAD /\ receiver.header_complete
    /\ receiver.expected_payload_size = 5 /\ receiver.received_bytes = 10
    /\ BufferSizeField = 5

C27_MemorySafety ==
    [][/\ (FeedStep /\ status' \notin {PAKIT_STATUS_ERROR_OVERFLOW,
                                      PAKIT_STATUS_ERROR_NULL_PARAM}) =>
                /\ receiver.received_bytes < BUFFER_SIZE
                /\ receiver.received_bytes \in DOMAIN receiver.buffer
       /\ Available' =>
                /\ HEADER_SIZE + HeaderSize(receiver') <= receiver'.received_bytes
                /\ receiver'.received_bytes <= BUFFER_SIZE
                /\ HeaderSize(receiver') <= MAX_PACKET_SIZE
       /\ (AskStep /\ packet' # NoPacket) =>
                /\ packet'.payload = RX_PAYLOAD
                /\ HEADER_SIZE + packet'.size <= receiver'.received_bytes
                /\ \A i \in 0..(packet'.size - 1) :
                        HEADER_SIZE + i \in DOMAIN receiver'.buffer]_vars

\* A packet whose payload ends at the last byte of the buffer.
C27_Witness ==
    /\ Given /\ ret /\ packet.payload = RX_PAYLOAD
    /\ receiver.received_bytes = BUFFER_SIZE
    /\ HEADER_SIZE + packet.size = BUFFER_SIZE

\* C28: from a freshly initialized receiver, among any 263 bytes fed in a
\* row with no pakit_init in between at least one call returns a status
\* other than IN_PROGRESS: no run of IN_PROGRESS answers is 263 calls long.
C28_BoundedResponse ==
    (Fed /\ status = PAKIT_STATUS_IN_PROGRESS) =>
        Len(att) < HEADER_SIZE + MaxPayloadSize

(***************************************************************************)
(* SpecStream: a caller that feeds a byte stream to a freshly initialized  *)
(* receiver one byte at a time, with no pakit_init, and may ask for the    *)
(* packet after any byte.                                                  *)
(***************************************************************************)
\* A frame with the largest payload of the wire format, and a frame whose
\* type[1] and count[0] are the marker bytes.
FrameMax == <<176, 178, 5, 5, 0, 1, 0, 255>> \o [i \in 1..255 |-> Pattern(1, i - 1)]
FrameEmbedded == <<176, 178, 1, 176, 178, 1, 0, 3, 65, 0, 0>>
StreamFrames == {FrameAB, FrameEmpty, FrameEmbedded, FrameMax}
StrayBytes == {0, 65, 176}
StreamData ==
    StreamFrames
        \cup {f \o g : f \in StreamFrames, g \in StreamFrames}
        \cup {f \o g \o h : f \in StreamFrames, g \in StreamFrames, h \in StreamFrames}
        \cup {<<x>> \o f : x \in StrayBytes,
                           f \in StreamFrames \cup {FrameCDE, FrameHello}}

InitStream ==
    /\ receiver = pakit_create(pakit_init)
    /\ status = NONE
    /\ op = "pakit_create"
    /\ ret = FALSE
    /\ packet = NoPacket
    /\ data \in StreamData
    /\ position = 0 /\ posArg = FALSE
    /\ ref = pakit_init /\ refStatus = NONE /\ refPos = 0
    /\ stage = 0
    /\ BytesIdle /\ CreateIdle
    /\ pc = "stream"

\* status = pakit_receive_byte(&receiver, data[position]); position++
StreamFeed ==
    /\ pc = "stream" /\ position < Len(data)
    /\ LET res == pakit_receive_byte(receiver, data[position + 1])
       IN  /\ receiver' = res.receiver
           /\ status' = res.status
    /\ position' = position + 1
    /\ op' = "pakit_receive_byte"
    /\ ret' = FALSE
    /\ packet' = NoPacket
    /\ UNCHANGED <<data, posArg, ref, refStatus, refPos, stage, bytevars, rtvars, pc>>

StreamIsPacketComplete ==
    /\ pc = "stream"
    /\ IsPacketCompleteCall
    /\ UNCHANGED <<bytevars, bufvars, rtvars, pc>>

NextStream ==
    \/ StreamFeed
    \/ StreamIsPacketComplete

SpecStream == InitStream /\ [][NextStream]_vars

\* bytes, from offset from on, is valid frames (size field at most 255) one
\* after the other; FrameEnds is the set of offsets where they end.
RECURSIVE Concatenated(_, _)
Concatenated(bytes, from) ==
    \/ from = Len(bytes)
    \/ /\ from + 8 <= Len(bytes)
       /\ bytes[from + 1] = 176 /\ bytes[from + 2] = 178
       /\ 256 * bytes[from + 7] + bytes[from + 8] <= MaxPayloadSize
       /\ from + 8 + 256 * bytes[from + 7] + bytes[from + 8] <= Len(bytes)
       /\ Concatenated(bytes, from + 8 + 256 * bytes[from + 7] + bytes[from + 8])

RECURSIVE FrameEnds(_, _)
FrameEnds(bytes, from) ==
    IF from + 8 > Len(bytes) THEN {}
    ELSE LET e == from + 8 + 256 * bytes[from + 7] + bytes[from + 8]
         IN  {e} \cup FrameEnds(bytes, e)

\* The frame of the stream that ends at offset p.
FrameEndingAt(bytes, p) ==
    LET starts == {0} \cup {e \in FrameEnds(bytes, 0) : e < p}
        from == CHOOSE b \in starts : \A c \in starts : c <= b
    IN  SubSeq(bytes, from + 1, p)

\* C23: when valid frames (each of size at most 255) follow one another in
\* a stream fed byte by byte to a fresh receiver, with no pakit_init between
\* them, SUCCESS is the answer to the last byte of each frame and
\* IN_PROGRESS to every other byte, and pakit_is_packet_complete right after
\* each SUCCESS gives that frame's fields.
C23_AutoAdvance ==
    (pc = "stream" /\ Concatenated(data, 0) /\ position >= 1) =>
        /\ status = IF position \in FrameEnds(data, 0) THEN PAKIT_STATUS_SUCCESS
                    ELSE PAKIT_STATUS_IN_PROGRESS
        /\ (Asked /\ position \in FrameEnds(data, 0)) =>
            LET F == FrameEndingAt(data, position)
            IN  /\ ret
                /\ Given =>
                    /\ packet.sop = <<176, 178>>
                    /\ packet.type = <<F[3], F[4]>>
                    /\ packet.count = WireCount(F)
                    /\ packet.size = WireSize(F)
                    /\ PayloadView(packet) = SubSeq(F, 9, Len(F))

\* The third frame of a stream, a 255-byte one, extracted.
C23_Witness ==
    /\ pc = "stream" /\ data = FrameAB \o FrameEmpty \o FrameMax
    /\ position = Len(data) /\ status = PAKIT_STATUS_SUCCESS
    /\ Given /\ packet.size = MaxPayloadSize /\ packet.type = <<5, 5>>

\* The stream is one stray byte followed by one valid frame.
StrayThenFrame(bytes) == Len(bytes) >= 9 /\ ValidFrame(Tail(bytes))

\* What C25 says of the first three bytes x, 0xB0, 0xB2: IN_PROGRESS,
\* ERROR_INVALID_SOP, IN_PROGRESS, and then STATE_UNIQUE_ID with one byte,
\* 0xB2, received.
StrayHead ==
    /\ position = 1 => status = PAKIT_STATUS_IN_PROGRESS
    /\ position = 2 => status = PAKIT_STATUS_ERROR_INVALID_SOP
    /\ position = 3 =>
            /\ status = PAKIT_STATUS_IN_PROGRESS
            /\ receiver.state = STATE_UNIQUE_ID
            /\ receiver.received_bytes = 1
            /\ receiver.buffer[0] = 178

RECURSIVE FeedAll(_, _)
FeedAll(r, bytes) ==
    IF bytes = <<>> THEN r
    ELSE FeedAll(pakit_receive_byte(r, Head(bytes)).receiver, Tail(bytes))

\* A frame with the largest payload the receiver takes: it fills the buffer.
FrameFull ==
    <<176, 178, 1, 3, 0, 1, 1, 7>> \o [i \in 1..MAX_PACKET_SIZE |-> Pattern(1, i - 1)]

\* The receiver after pakit_init and the bytes of FrameFull: complete, no
\* room for another byte.
ReceiverFull ==
    [ buffer |-> [i \in 0..(BUFFER_SIZE - 1) |-> FrameFull[i + 1]],
      received_bytes |-> Len(FrameFull),
      header_complete |-> TRUE,
      state |-> STATE_COMPLETE,
      expected_payload_size |-> MAX_PACKET_SIZE ]

LoopReceivers ==
    {FeedAll(pakit_init, SubSeq(FrameHello, 1, k)) : k \in {0, 1, 3, 8, 10, 13}}
        \cup {ReceiverFull}

InitLoop ==
    /\ receiver \in LoopReceivers
    /\ status = NONE
    /\ op = "pakit_create"
    /\ ret = FALSE
    /\ packet = NoPacket
    /\ data \in BufferData
    /\ position \in SeekOffsets(data)
    /\ posArg = FALSE
    /\ ref = pakit_init /\ refStatus = NONE /\ refPos = 0
    /\ stage = 0
    /\ BytesIdle /\ CreateIdle
    /\ pc = "loop"

\* Where the caller goes after a call: out of the loop when position has
\* reached the length.
LoopNext == IF position >= Len(data) THEN "exit" ELSE "loop"

\* status = pakit_receive_buffer(receiver, data, sizeof(data), &position);
\* ref and refPos keep the receiver and the position of before the call.
LoopCall ==
    /\ pc = "loop"
    /\ LET res == pakit_receive_buffer(receiver, BufferPtr(data), Len(data),
                                       PositionPtr(position))
       IN  /\ receiver' = res.receiver
           /\ status' = res.status
           /\ position' = res.position.val
    /\ ref' = receiver
    /\ refPos' = position
    /\ posArg' = TRUE
    /\ op' = "pakit_receive_buffer"
    /\ pc' = "called"
    /\ UNCHANGED <<ret, packet, data, refStatus, stage, bytevars, rtvars>>

\* if (status == PAKIT_STATUS_SUCCESS) { ...; pakit_init(receiver); }
LoopReinit ==
    /\ pc = "called" /\ status = PAKIT_STATUS_SUCCESS
    /\ InitCall
    /\ pc' = LoopNext
    /\ UNCHANGED <<bufvars, bytevars, rtvars>>

\* any other status: the caller goes on
LoopContinue ==
    /\ pc = "called" /\ status # PAKIT_STATUS_SUCCESS
    /\ pc' = LoopNext
    /\ UNCHANGED <<receiver, status, op, ret, packet, bufvars, bytevars, rtvars>>

NextLoop ==
    \/ LoopCall
    \/ LoopReinit
    \/ LoopContinue

\* The caller keeps running: weak fairness of NextLoop.  NextLoop is enabled
\* exactly when pc # "exit" (every step of it changes pc or follows a step
\* that did), so WF_vars(NextLoop), that is <>[](ENABLED <<NextLoop>>_vars)
\* => []<><<NextLoop>>_vars, is written with the enabling condition itself.
LoopFairness == []<>(pc = "exit") \/ []<><<NextLoop>>_vars
SpecLoop == InitLoop /\ [][NextLoop]_vars /\ LoopFairness

\* What a call leaves, refPos being the offset it started from.
OffsetDiscipline ==
    pc = "called" =>
        IF refPos < Len(data)
        THEN /\ refPos < position
             /\ position <= Len(data)
             /\ status = PAKIT_STATUS_IN_PROGRESS => position = Len(data)
        ELSE /\ position = refPos
             /\ status = PAKIT_STATUS_IN_PROGRESS
             /\ receiver = ref

\* C26: with receiver and buffer given and a start offset below the length
\* pakit_receive_buffer takes at least one byte (start < end <= length) and
\* returns IN_PROGRESS only when end = length; with a start offset at or
\* past the length it takes nothing, returns IN_PROGRESS and leaves offset
\* and receiver as they were; so the loop that calls it again and again
\* (pakit_init after each SUCCESS) until the offset reaches the length ends.
C26_OffsetDiscipline == [](OffsetDiscipline) /\ <>(pc = "exit")

\* The loop has left after two frames: the second call started where the
\* first stopped and the receiver was reinitialized after its SUCCESS.
C26_Witness ==
    /\ pc = "exit" /\ data = FrameAB \o FrameCDE
    /\ refPos = Len(FrameAB) /\ position = Len(data)
    /\ op = "pakit_init"

(***************************************************************************)
(* SpecPair: two freshly initialized receivers, receiver and ref, fed two  *)
(* byte streams in step.  The streams have the same byte wherever the byte *)
(* is a marker byte or a size byte of the frame attempt, and any bytes     *)
(* where it is a type, count or payload byte.  status and refStatus are    *)
(* the statuses of the last two calls.                                     *)
(***************************************************************************)
\* Bytes the streams carry as type, count and payload (a marker byte among
\* them), as marker and as size field.
PairOpaque == {1, EXPECTED_SOP_0}
PairSopBytes == {65, EXPECTED_SOP_0, EXPECTED_SOP_1}
PairSizeFields == {<<0, 0>>, <<0, 1>>, <<0, 2>>, <<1, 8>>}

\* The offset in its frame attempt of the next byte r takes.
AttemptOffset(r) == IF r.state = STATE_COMPLETE THEN 0 ELSE r.received_bytes

\* The pairs (byte of the first stream, byte of the second) at offset n.
PairBytes(n, r) ==
    IF n < PACKET_SOP_SIZE THEN {<<b, b>> : b \in PairSopBytes}
    ELSE IF n < PACKET_SOP_SIZE + PACKET_TYPE_SIZE + PACKET_COUNT_SIZE
    THEN PairOpaque \X PairOpaque
    ELSE IF n = HEADER_SIZE - 2 THEN {<<f[1], f[1]>> : f \in PairSizeFields}
    ELSE IF n = HEADER_SIZE - 1
    THEN {<<f[2], f[2]>> : f \in {g \in PairSizeFields : g[1] = HeaderSizeBytes(r, 0)}}
    ELSE PairOpaque \X PairOpaque

InitPair ==
    /\ receiver = pakit_create(pakit_init)
    /\ ref = pakit_create(pakit_init)
    /\ status = NONE /\ refStatus = NONE
    /\ op = "pakit_create"
    /\ ret = FALSE
    /\ packet = NoPacket
    /\ data = <<>> /\ position = 0 /\ posArg = FALSE /\ refPos = 0 /\ stage = 0
    /\ BytesIdle /\ CreateIdle
    /\ pc = "pair"

\* status = pakit_receive_byte(&receiver, b[1]);
\* refStatus = pakit_receive_byte(&ref, b[2])
PairFeed ==
    /\ pc = "pair"
    /\ \E b \in PairBytes(AttemptOffset(receiver), receiver) :
        LET res1 == pakit_receive_byte(receiver, b[1])
            res2 == pakit_receive_byte(ref, b[2])
        IN  /\ receiver' = res1.receiver
            /\ status' = res1.status
            /\ ref' = res2.receiver
            /\ refStatus' = res2.status
    /\ op' = "pakit_receive_byte"
    /\ UNCHANGED <<ret, packet, data, position, posArg, refPos, stage,
                   bytevars, rtvars, pc>>

\* pakit_init(&receiver); pakit_init(&ref)
PairInit ==
    /\ pc = "pair"
    /\ InitCall
    /\ ref' = pakit_init
    /\ refStatus' = NONE
    /\ UNCHANGED <<data, position, posArg, refPos, stage, bytevars, rtvars, pc>>

NextPair ==
    \/ PairFeed
    \/ PairInit

SpecPair == InitPair /\ [][NextPair]_vars

\* The fields of a receiver that are not frame content.
ControlState(r) ==
    <<r.state, r.received_bytes, r.header_complete, r.expected_payload_size>>

\* C29: two streams of the same length that have the same byte at every
\* marker and size position of a frame attempt, and differ only in type,
\* count and payload bytes, get the same status for every byte and leave
\* the same state, received_bytes, header_complete and
\* expected_payload_size in two freshly initialized receivers.
C29_ContentIndependence ==
    pc = "pair" =>
        /\ status = refStatus
        /\ ControlState(receiver) = ControlState(ref)

\* Two frames complete together that differ in a type byte, a count byte
\* and a payload byte.
C29_Witness ==
    /\ pc = "pair"
    /\ status = PAKIT_STATUS_SUCCESS /\ refStatus = PAKIT_STATUS_SUCCESS
    /\ receiver.expected_payload_size = 2
    /\ HeaderType(receiver, 0) # HeaderType(ref, 0)
    /\ HeaderCountBytes(receiver, 1) # HeaderCountBytes(ref, 1)
    /\ FieldsPayload(receiver, 1) # FieldsPayload(ref, 1)

=============================================================================
